---- MODULE Spec2Model ----
(***************************************************************************)
(* teleinfo-parser: the frame scanner (frame.rs) and the extractor of the  *)
(* Heures Creuses informations (hc.rs).                                    *)
(*                                                                         *)
(* A byte is a number of 0..255.  A Rust String is the sequence of the     *)
(* code points of its chars; read_char turns each byte b into the char of  *)
(* code point b, so every string read from a source is a sequence over     *)
(* 0..255.  String literals of the source are written as the sequence of   *)
(* their ASCII codes.                                                      *)
(***************************************************************************)
EXTENDS Integers, Sequences, FiniteSets, TLC

VARIABLES
    input,      \* the content of the byte source (io::Read), fixed
    pos,        \* how many reads of the source have been consumed
    results,    \* the value returned by each call made on the source so far
    gen,        \* how the content of the source was built (observer only)
    frame,      \* the Frame handed to HcInfos::from
    infos,      \* <<>> or <<r>>, r the value returned by HcInfos::from
    lbl,        \* argument of checksum / parse_tag
    val,        \* argument of checksum / parse_tag
    sum,        \* -1 or the value returned by checksum(lbl, val)
    parsed      \* <<>> or <<r>>, r the value returned by parse_tag(lbl, val)

vars == <<input, pos, results, gen, frame, infos, lbl, val, sum, parsed>>

(***************************************************************************)
(* Bounds of the model.                                                    *)
(***************************************************************************)
MaxGroups == 2      \* groups in a generated frame
MaxCalls == 3       \* calls made on one source
MaxStr == 2         \* length of the generated label / value strings
MaxExtra == 2       \* tags added to a generated frame of the extractor

(***************************************************************************)
(* frame.rs: control bytes.                                                *)
(***************************************************************************)
STX == 2
ETX == 3
EOT == 4
LF == 10
CR == 13
SP == 32
SEPARATOR == SP

\* A read of the source that fails with an io::Error (not a byte).
IOERR == -1

(***************************************************************************)
(* String literals of parse_tag.                                           *)
(***************************************************************************)
L_ADCO == <<65, 68, 67, 79>>
L_OPTARIF == <<79, 80, 84, 65, 82, 73, 70>>
L_ISOUSC == <<73, 83, 79, 85, 83, 67>>
L_BASE == <<66, 65, 83, 69>>
L_HCHC == <<72, 67, 72, 67>>
L_HCHP == <<72, 67, 72, 80>>
L_PTEC == <<80, 84, 69, 67>>
L_IINST == <<73, 73, 78, 83, 84>>
L_IMAX == <<73, 77, 65, 88>>
L_ADPS == <<65, 68, 80, 83>>
L_PAPP == <<80, 65, 80, 80>>
L_HHPHC == <<72, 72, 80, 72, 67>>
L_MOTDETAT == <<77, 79, 84, 68, 69, 84, 65, 84>>
S_Base == <<66, 97, 115, 101>>
S_HCdd == <<72, 67, 46, 46>>
S_EJPd == <<69, 74, 80, 46>>
S_THdd == <<84, 72, 46, 46>>
S_HPdd == <<72, 80, 46, 46>>

(***************************************************************************)
(* Values.  A Tag is a record: tag names the variant, n is the i32         *)
(* payload, e the variant of the enumeration payload, s the String (or     *)
(* char) payload and l the label kept by UNKNOWN.  An error is a           *)
(* TeleinfoError: text and arg are the format string and its argument.     *)
(***************************************************************************)
MkTag(t, n, e, s, l) == [tag |-> t, n |-> n, e |-> e, s |-> s, l |-> l]
NoTag == MkTag("", 0, "", <<>>, <<>>)
NumTag(t, n) == MkTag(t, n, "", <<>>, <<>>)
StrTag(t, s) == MkTag(t, 0, "", s, <<>>)
EnumTag(t, e, s) == MkTag(t, 0, e, s, <<>>)

MkErr(k, text, arg) == [kind |-> k, text |-> text, arg |-> arg]
NoErr == MkErr("", "", <<>>)
EndOfFile == MkErr("EndOfFile", "", <<>>)
EndOfTransmission == MkErr("EndOfTransmission", "", <<>>)
IoError == MkErr("IoError", "", <<>>)
ChecksumError == MkErr("ChecksumError", "", <<>>)
FrameError(text, arg) == MkErr("FrameError", text, arg)

(***************************************************************************)
(* u8 arithmetic of checksum.                                              *)
(***************************************************************************)
RECURSIVE BitAnd(_, _)
BitAnd(a, b) ==
    IF a = 0 \/ b = 0 THEN 0
    ELSE 2 * BitAnd(a \div 2, b \div 2) + (IF a % 2 = 1 /\ b % 2 = 1 THEN 1 ELSE 0)

AsU8(c) == c % 256

WrappingAdd(a, b) == (a + b) % 256

\* for c in s.chars() { sum = sum.wrapping_add(c as u8); }
RECURSIVE SumChars(_, _)
SumChars(s, acc) ==
    IF s = <<>> THEN acc
    ELSE SumChars(Tail(s), WrappingAdd(acc, AsU8(Head(s))))

checksumNoSep(l, v) ==
    BitAnd(SumChars(v, SumChars(l, 0)), 63) + 32
checksum(l, v) ==
    BitAnd(SumChars(v, WrappingAdd(SumChars(l, 0), AsU8(SEPARATOR))), 63) + 32

(***************************************************************************)
(* str::parse::<i32>: an optional sign, then one or more decimal digits,   *)
(* accumulated with checked_mul / checked_add (checked_sub when negative). *)
(***************************************************************************)
IsDigit(c) == c >= 48 /\ c <= 57

\* [ok, v]: the digits ds accumulated on acc, going up (sgn = 1) or down.
RECURSIVE AccDigits(_, _, _)
AccDigits(ds, acc, sgn) ==
    IF ds = <<>> THEN [ok |-> TRUE, v |-> acc]
    ELSE IF ~IsDigit(Head(ds)) THEN [ok |-> FALSE, v |-> 0]
    ELSE LET d == Head(ds) - 48 IN
         IF sgn = 1
         THEN IF acc < 214748364 \/ (acc = 214748364 /\ d <= 7)
              THEN AccDigits(Tail(ds), acc * 10 + d, sgn)
              ELSE [ok |-> FALSE, v |-> 0]
         ELSE IF acc > -214748364 \/ (acc = -214748364 /\ d <= 8)
              THEN AccDigits(Tail(ds), acc * 10 - d, sgn)
              ELSE [ok |-> FALSE, v |-> 0]

ParseI32(s) ==
    IF s = <<>> THEN [ok |-> FALSE, v |-> 0]
    ELSE IF Len(s) = 1 /\ (s[1] = 43 \/ s[1] = 45) THEN [ok |-> FALSE, v |-> 0]
    ELSE IF s[1] = 43 THEN AccDigits(Tail(s), 0, 1)
    ELSE IF s[1] = 45 THEN AccDigits(Tail(s), 0, -1)
    ELSE AccDigits(s, 0, 1)

(***************************************************************************)
(* parse_tag: [ok, tag, err].                                              *)
(***************************************************************************)
TagOk(t) == [ok |-> TRUE, tag |-> t, err |-> NoErr]
TagErr(e) == [ok |-> FALSE, tag |-> NoTag, err |-> e]

NumberTagDefault(t, v) ==
    LET p == ParseI32(v) IN
    IF p.ok THEN TagOk(NumTag(t, p.v)) ELSE TagOk(NumTag(t, 0))

\* val.parse::<i32>().map_err(|_| FrameError("Number parse error on {}"))?
NumberTag(t, v) ==
    LET p == ParseI32(v) IN
    IF p.ok THEN TagOk(NumTag(t, p.v))
    ELSE TagErr(FrameError("Number parse error on {}", v))

OptionTarifaire(v) ==
    IF v = S_Base THEN EnumTag("OPTARIF", "Base", <<>>)
    ELSE IF v = S_HCdd THEN EnumTag("OPTARIF", "HC", <<>>)
    ELSE IF v = S_EJPd THEN EnumTag("OPTARIF", "EJP", <<>>)
    ELSE EnumTag("OPTARIF", "UNKNOWN", v)

PeriodeTarifaire(v) ==
    IF v = S_THdd THEN EnumTag("PTEC", "TH", <<>>)
    ELSE IF v = S_HCdd THEN EnumTag("PTEC", "HC", <<>>)
    ELSE IF v = S_HPdd THEN EnumTag("PTEC", "HP", <<>>)
    ELSE EnumTag("PTEC", "UNKNOWN", v)

parse_tagStrict(l, v) ==
    TagErr(FrameError("Unknown label {}", l))

parse_tagUnknown(l, v) ==
    TagOk(MkTag("UNKNOWN", 0, "", v, l))

parse_tag(l, v) ==
    IF l = L_ADCO THEN TagOk(StrTag("ADCO", v))
    ELSE IF l = L_OPTARIF THEN TagOk(OptionTarifaire(v))
    ELSE IF l = L_ISOUSC THEN NumberTag("ISOUSC", v)
    ELSE IF l = L_BASE THEN NumberTag("BASE", v)
    ELSE IF l = L_HCHC THEN NumberTag("HCHC", v)
    ELSE IF l = L_HCHP THEN NumberTag("HCHP", v)
    ELSE IF l = L_PTEC THEN TagOk(PeriodeTarifaire(v))
    ELSE IF l = L_IINST THEN NumberTag("IINST", v)
    ELSE IF l = L_IMAX THEN NumberTag("IMAX", v)
    ELSE IF l = L_ADPS THEN NumberTag("ADPS", v)
    ELSE IF l = L_PAPP THEN NumberTag("PAPP", v)
    ELSE IF l = L_HHPHC
         THEN IF v = <<>>
              THEN TagErr(FrameError("HHPHC should be one char long", <<>>))
              ELSE TagOk(StrTag("HHPHC", <<Head(v)>>))
    ELSE IF l = L_MOTDETAT THEN TagOk(StrTag("MOTDETAT", v))
    ELSE parse_tagUnknown(l, v)

(***************************************************************************)
(* The byte source.  input[i] is what the i-th read of the source gives:   *)
(* a byte, or IOERR when that read fails; past the end read gives 0 bytes. *)
(* Every reader returns the number of reads consumed as pos.               *)
(***************************************************************************)
CharOk(c, p) == [ok |-> TRUE, c |-> c, err |-> NoErr, pos |-> p]
CharErr(e, p) == [ok |-> FALSE, c |-> 0, err |-> e, pos |-> p]

read_charNoEot(in, p) ==
    IF p >= Len(in) THEN CharErr(EndOfFile, p)
    ELSE IF in[p + 1] = IOERR THEN CharErr(IoError, p + 1)
    ELSE CharOk(in[p + 1], p + 1)

read_charEotUnread(in, p) ==
    IF p >= Len(in) THEN CharErr(EndOfFile, p)
    ELSE IF in[p + 1] = IOERR THEN CharErr(IoError, p + 1)
    ELSE IF in[p + 1] = EOT THEN CharErr(EndOfTransmission, p)
    ELSE CharOk(in[p + 1], p + 1)

read_char(in, p) ==
    IF p >= Len(in) THEN CharErr(EndOfFile, p)
    ELSE IF in[p + 1] = IOERR THEN CharErr(IoError, p + 1)
    ELSE IF in[p + 1] = EOT THEN CharErr(EndOfTransmission, p + 1)
    ELSE CharOk(in[p + 1], p + 1)

RECURSIVE skip_to(_, _, _)
skip_to(in, p, stop_char) ==
    LET c == read_char(in, p) IN
    IF ~c.ok THEN [ok |-> FALSE, err |-> c.err, pos |-> c.pos]
    ELSE IF c.c = stop_char THEN [ok |-> TRUE, err |-> NoErr, pos |-> c.pos]
    ELSE skip_to(in, c.pos, stop_char)

\* the loop of read_to_sep, result being the String built so far
RECURSIVE ReadToSepLoop(_, _, _)
ReadToSepLoop(in, p, result) ==
    LET c == read_char(in, p) IN
    IF ~c.ok THEN [ok |-> FALSE, s |-> <<>>, err |-> c.err, pos |-> c.pos]
    ELSE IF c.c = SEPARATOR THEN [ok |-> TRUE, s |-> result, err |-> NoErr, pos |-> c.pos]
    ELSE ReadToSepLoop(in, c.pos, Append(result, c.c))

read_to_sepIncl(in, p) ==
    LET r == ReadToSepLoop(in, p, <<>>) IN
    IF r.ok THEN [r EXCEPT !.s = Append(r.s, SEPARATOR)] ELSE r

read_to_sep(in, p) == ReadToSepLoop(in, p, <<>>)

expect_charAny(in, p, expected) ==
    LET c == read_char(in, p) IN
    IF ~c.ok THEN [ok |-> FALSE, err |-> c.err, pos |-> c.pos]
    ELSE [ok |-> TRUE, err |-> NoErr, pos |-> c.pos]

expect_char(in, p, expected) ==
    LET c == read_char(in, p) IN
    IF ~c.ok THEN [ok |-> FALSE, err |-> c.err, pos |-> c.pos]
    ELSE IF c.c # expected
         THEN [ok |-> FALSE,
               err |-> FrameError("Expected {} but found {}", <<expected, c.c>>),
               pos |-> c.pos]
    ELSE [ok |-> TRUE, err |-> NoErr, pos |-> c.pos]

(***************************************************************************)
(* Result<Frame, TeleinfoError> of read_frame and Frame::next_frame, with  *)
(* the reads consumed: [res |-> [kind, tags, text, arg], pos].             *)
(***************************************************************************)
FrameOk(tags) == [kind |-> "Ok", tags |-> tags, text |-> "", arg |-> <<>>]
FrameErr(e) == [kind |-> e.kind, tags |-> <<>>, text |-> e.text, arg |-> e.arg]
Ret(r, p) == [res |-> r, pos |-> p]

Frame_new == <<>>

\* c != checksum(&lbl, &val), negated
ChecksumMatchesIfParses(c, l, v) == ~parse_tag(l, v).ok \/ c = checksum(l, v)

ChecksumMatchesNotSep(c, l, v) == c # SEPARATOR /\ c = checksum(l, v)

ChecksumMatchesLow6(c, l, v) == BitAnd(c, 63) = BitAnd(checksum(l, v), 63)
ChecksumMatches(c, l, v) == c = checksum(l, v)

\* the loop of read_frame, tags being frame.tags
RECURSIVE ReadFrameLoop(_, _, _)
ReadFrameLoop(in, p, tags) ==
    LET c == read_char(in, p) IN
    IF ~c.ok THEN Ret(FrameErr(c.err), c.pos)
    ELSE IF c.c = ETX THEN Ret(FrameOk(tags), c.pos)
    ELSE IF c.c # LF
         THEN Ret(FrameErr(FrameError("Expected LF but found {}", <<c.c>>)), c.pos)
    ELSE
    LET l == read_to_sep(in, c.pos) IN
    IF ~l.ok THEN Ret(FrameErr(l.err), l.pos)
    ELSE
    LET v == read_to_sep(in, l.pos) IN
    IF ~v.ok THEN Ret(FrameErr(v.err), v.pos)
    ELSE
    LET k == read_char(in, v.pos) IN
    IF ~k.ok THEN Ret(FrameErr(k.err), k.pos)
    ELSE IF ~ChecksumMatches(k.c, l.s, v.s) THEN Ret(FrameErr(ChecksumError), k.pos)
    ELSE
    LET t == parse_tag(l.s, v.s) IN
    IF ~t.ok THEN Ret(FrameErr(t.err), k.pos)
    ELSE
    LET e == expect_char(in, k.pos, CR) IN
    IF ~e.ok THEN Ret(FrameErr(e.err), e.pos)
    ELSE ReadFrameLoop(in, e.pos, Append(tags, t.tag))

read_frameLookahead(in, p) ==
    LET r == ReadFrameLoop(in, p, Frame_new) IN
    IF r.res.kind = "Ok" /\ r.pos < Len(in) THEN Ret(r.res, r.pos + 1) ELSE r

read_frame(in, p) == ReadFrameLoop(in, p, Frame_new)

next_frameRewind(in, p) ==
    LET s == skip_to(in, 0, STX) IN
    IF ~s.ok THEN Ret(FrameErr(s.err), s.pos)
    ELSE read_frame(in, s.pos)

next_frame(in, p) ==
    LET s == skip_to(in, p, STX) IN
    IF ~s.ok THEN Ret(FrameErr(s.err), s.pos)
    ELSE read_frame(in, s.pos)

\* the sum of the bytes of s, in the integers
RECURSIVE SeqSum(_)
SeqSum(s) == IF s = <<>> THEN 0 ELSE Head(s) + SeqSum(Tail(s))

(***************************************************************************)
(* Values of the variables a specification does not use.                   *)
(***************************************************************************)
NoGen ==
    [kind |-> "none", pre |-> <<>>, ps |-> <<>>, k |-> 0, b |-> 0,
     junk |-> <<>>, second |-> <<>>]

(***************************************************************************)
(* SpecPure: checksum and parse_tag applied to generated arguments.        *)
(***************************************************************************)
V_00380 == <<48, 48, 51, 56, 48>>
V_99 == <<57, 57>>
V_123 == <<49, 50, 51>>
V_12a == <<49, 50, 97>>
V_p5 == <<43, 53>>
V_m7 == <<45, 55>>
V_max == <<50, 49, 52, 55, 52, 56, 51, 54, 52, 55>>
V_over == <<50, 49, 52, 55, 52, 56, 51, 54, 52, 56>>
V_min == <<45, 50, 49, 52, 55, 52, 56, 51, 54, 52, 56>>
V_under == <<45, 50, 49, 52, 55, 52, 56, 51, 54, 52, 57>>
V_big == <<57, 57, 57, 57, 57, 57, 57, 57, 57, 57, 57>>
L_XYZ == <<88, 89, 90>>
L_papp == <<112, 97, 112, 112>>

KnownLabels ==
    {L_ADCO, L_OPTARIF, L_ISOUSC, L_BASE, L_HCHC, L_HCHP, L_PTEC, L_IINST,
     L_IMAX, L_ADPS, L_PAPP, L_HHPHC, L_MOTDETAT}

NumericLabels ==
    {L_ISOUSC, L_BASE, L_HCHC, L_HCHP, L_IINST, L_IMAX, L_ADPS, L_PAPP}

OtherLabels == {<<>>, L_XYZ, L_papp, <<66, 65, 83>>, <<66, 65, 83, 69, 83>>, <<233>>}

ValuePool ==
    {<<>>, <<43>>, <<45>>, <<48>>, <<65>>, <<65, 66>>, V_00380, V_99, V_123,
     V_12a, V_p5, V_m7, V_max, V_over, V_min, V_under, V_big,
     S_Base, S_HCdd, S_EJPd, S_THdd, S_HPdd, <<72, 80>>, <<104, 99, 46, 46>>,
     <<233, 255>>}

Alphabet == {0, 32, 65, 127, 128, 255}

ByteStrings(n) == UNION {[1..k -> Alphabet] : k \in 0..n}

InitPure ==
    /\ \/ lbl \in KnownLabels \cup OtherLabels /\ val \in ValuePool
       \/ lbl \in ByteStrings(MaxStr) /\ val \in ByteStrings(MaxStr)
       \/ \E b \in 0..255, c \in Alphabet :
             \/ lbl = <<b>> /\ val = <<c>>
             \/ lbl = <<c>> /\ val = <<b>>
    /\ sum = -1
    /\ parsed = <<>>
    /\ input = <<>> /\ pos = 0 /\ results = <<>> /\ gen = NoGen
    /\ frame = <<>> /\ infos = <<>>

\* let s = checksum(lbl, val);
Checksum ==
    /\ sum = -1
    /\ sum' = checksum(lbl, val)
    /\ UNCHANGED <<input, pos, results, gen, frame, infos, lbl, val, parsed>>

\* let t = parse_tag(lbl, val);
ParseTag ==
    /\ parsed = <<>>
    /\ parsed' = <<parse_tag(lbl, val)>>
    /\ UNCHANGED <<input, pos, results, gen, frame, infos, lbl, val, sum>>

NextPure == Checksum \/ ParseTag

SpecPure == InitPure /\ [][NextPure]_vars

\* C3: checksum(lbl, val) is (((sum of the label bytes + 0x20 + sum of the
\* value bytes) mod 256) & 0x3F) + 0x20 on the 8-bit values, lies in
\* 0x20..0x5F, and checksum("PAPP", "00380") is 0x2C.
C3_ChecksumValue ==
    sum # -1 =>
        /\ sum = BitAnd((SeqSum(lbl) + 32 + SeqSum(val)) % 256, 63) + 32
        /\ sum >= 32 /\ sum <= 95
        /\ (lbl = L_PAPP /\ val = V_00380 => sum = 44)

\* the sum of the bytes passes 255 (the u8 wraps) and a byte is above 0x7F
C3_Witness ==
    /\ sum # -1
    /\ SeqSum(lbl) + 32 + SeqSum(val) > 511
    /\ \E i \in 1..Len(lbl) : lbl[i] > 127

\* C10: parse_tag gives Ok(UNKNOWN(label, value)) for a label outside the
\* thirteen known ones, OPTARIF(UNKNOWN(value)) and PTEC(UNKNOWN(value)) for
\* an unrecognised literal, and BASE(99) for ("BASE", "99").
C10_UnknownIsNoError ==
    parsed # <<>> =>
        LET r == parsed[1] IN
        /\ lbl \notin KnownLabels =>
               r.ok /\ r.tag = MkTag("UNKNOWN", 0, "", val, lbl)
        /\ (lbl = L_OPTARIF /\ val \notin {S_Base, S_HCdd, S_EJPd}) =>
               r.ok /\ r.tag = MkTag("OPTARIF", 0, "UNKNOWN", val, <<>>)
        /\ (lbl = L_PTEC /\ val \notin {S_THdd, S_HCdd, S_HPdd}) =>
               r.ok /\ r.tag = MkTag("PTEC", 0, "UNKNOWN", val, <<>>)
        /\ (lbl = L_BASE /\ val = V_99) =>
               r.ok /\ r.tag = MkTag("BASE", 99, "", <<>>, <<>>)

C10_Witness ==
    /\ parsed # <<>>
    /\ lbl = L_XYZ /\ val = V_123
    /\ parsed[1].ok /\ parsed[1].tag.tag = "UNKNOWN"

\* C19: parse_tag gives an HHPHC tag for a value of exactly one character,
\* that tag carrying the whole value, and FrameError("HHPHC should be one
\* char long") for every other value, the empty one and those of two
\* characters or more.
C19_OneCharOnly ==
    (parsed # <<>> /\ lbl = L_HHPHC) =>
        LET r == parsed[1] IN
        IF Len(val) = 1
        THEN r.ok /\ r.tag.tag = "HHPHC" /\ r.tag.s = val
        ELSE /\ ~r.ok
             /\ r.err = FrameError("HHPHC should be one char long", <<>>)

(***************************************************************************)
(* Spec: Frame::next_frame called again and again on one source.  The      *)
(* content of the source is what a meter sends, <STX> then for each group  *)
(* <LF> label <SP> value <SP> checksum <CR>, then <ETX>, left as it is or  *)
(* damaged: cut short, one read replaced, one checksum replaced; another   *)
(* frame may follow it.                                                    *)
(***************************************************************************)
\* the checksum as the meter computes it
MeterChecksum(l, v) == ((SeqSum(l) + 32 + SeqSum(v)) % 64) + 32

EncodeGroup(pr) ==
    <<LF>> \o pr[1] \o <<SP>> \o pr[2] \o <<SP, MeterChecksum(pr[1], pr[2]), CR>>

RECURSIVE EncodeGroups(_)
EncodeGroups(ps) ==
    IF ps = <<>> THEN <<>> ELSE EncodeGroup(Head(ps)) \o EncodeGroups(Tail(ps))

Encode(ps) == <<STX>> \o EncodeGroups(ps) \o <<ETX>>

\* index in Encode(ps) of the checksum byte, and of the <CR>, of group i
ChecksumPos(ps, i) == 1 + Len(EncodeGroups(SubSeq(ps, 1, i))) - 1
CrPos(ps, i) == 1 + Len(EncodeGroups(SubSeq(ps, 1, i)))

P_BASE99 == <<L_BASE, V_99>>
P_HHPHC0 == <<L_HHPHC, <<>>>>
P_HHPHCA == <<L_HHPHC, <<65>>>>
P_IMAXx == <<L_IMAX, <<120>>>>
P_ADCOI == <<L_ADCO, <<73>>>>
P_RAW == <<<<233, 3>>, <<2, 255>>>>
P_PTEC == <<L_PTEC, S_HPdd>>
P_IINST5 == <<L_IINST, <<53>>>>

Pool == {P_BASE99, P_HHPHC0, P_HHPHCA, P_IMAXx, P_ADCOI, P_RAW, P_PTEC}
SumPool == {P_BASE99, P_HHPHC0, P_RAW}
SetBytes == {EOT, IOERR, SP, STX, 120}
Junk == <<120>>
SecondSeqs == {<<>>, <<P_IINST5>>, <<P_IINST5, P_BASE99>>}

PairSeqs(pool, n) == UNION {[1..m -> pool] : m \in 0..n}

MkGen(kind, pre, ps, k, b, junk, second) ==
    [kind |-> kind, pre |-> pre, ps |-> ps, k |-> k, b |-> b,
     junk |-> junk, second |-> second]

\* <<pre, junk, second>>: what precedes the frame and what follows it
Around ==
    {<<<<>>, <<>>, <<>>>>, <<Junk, <<>>, <<>>>>, <<<<>>, <<>>, <<<<P_IINST5>>>>>>}
AroundPlain ==
    {<<pre, <<>>, <<>>>> : pre \in {<<>>, Junk}}
    \cup {<<pre, j, <<q>>>> : pre \in {<<>>, Junk}, j \in {<<>>, Junk}, q \in SecondSeqs}

\* the content is that of a frame
GenPlain(g) ==
    \E a \in AroundPlain, ps \in PairSeqs(Pool, MaxGroups) :
        g = MkGen("plain", a[1], ps, 0, 0, a[2], a[3])

\* the content stops after the first k bytes of pre and the frame
GenCut(g) ==
    \E a \in Around, ps \in PairSeqs(Pool, MaxGroups) :
        \E k \in 0..(Len(a[1]) + Len(Encode(ps)) - 1) :
            g = MkGen("cut", a[1], ps, k, 0, a[2], a[3])

\* the k-th read of pre and the frame gives b instead
GenSet(g) ==
    \E a \in Around, ps \in PairSeqs(Pool, MaxGroups) :
        \E k \in 1..(Len(a[1]) + Len(Encode(ps))), b \in SetBytes :
            /\ (a[1] \o Encode(ps))[k] # b
            /\ g = MkGen("set", a[1], ps, k, b, a[2], a[3])

\* the checksum of the k-th group is another byte b
GenSum(g) ==
    \E ps \in PairSeqs(SumPool, MaxGroups) :
        \E k \in 1..Len(ps), b \in 0..255 :
            /\ b # MeterChecksum(ps[k][1], ps[k][2])
            /\ g = MkGen("sum", <<>>, ps, k, b, <<>>, <<>>)

\* a frame whose last group has a numeric label and any value of the pool
GenNum(g) ==
    \E l \in NumericLabels, v \in ValuePool, before \in {<<>>, <<P_PTEC>>} :
        g = MkGen("num", <<>>, before \o <<<<l, v>>>>, 0, 0, <<>>, <<>>)

Base(g) == g.pre \o Encode(g.ps)
Post(g) == IF g.second = <<>> THEN <<>> ELSE g.junk \o Encode(g.second[1])

Build(g) ==
    CASE g.kind \in {"plain", "num"} -> Base(g) \o Post(g)
      [] g.kind = "cut" -> SubSeq(Base(g), 1, g.k) \o Post(g)
      [] g.kind = "set" -> [Base(g) EXCEPT ![g.k] = g.b] \o Post(g)
      [] g.kind = "sum" ->
            [Base(g) EXCEPT ![Len(g.pre) + ChecksumPos(g.ps, g.k)] = g.b] \o Post(g)

Init ==
    /\ GenPlain(gen) \/ GenCut(gen) \/ GenSet(gen) \/ GenSum(gen) \/ GenNum(gen)
    /\ input = Build(gen)
    /\ pos = 0
    /\ results = <<>>
    /\ frame = <<>> /\ infos = <<>>
    /\ lbl = <<>> /\ val = <<>> /\ sum = -1 /\ parsed = <<>>

\* let r = Frame::next_frame(&mut input);
NextFrame ==
    /\ Len(results) < MaxCalls
    /\ LET r == next_frame(input, pos) IN
       /\ pos' = r.pos
       /\ results' = Append(results, r.res)
    /\ UNCHANGED <<input, gen, frame, infos, lbl, val, sum, parsed>>

Next == NextFrame

Spec == Init /\ [][Next]_vars

(***************************************************************************)
(* What the claims say of the generated content.                           *)
(***************************************************************************)
NoSepNoEot(s) == \A i \in 1..Len(s) : s[i] # SP /\ s[i] # EOT

\* labels and values free of 0x20 and 0x04, numeric labels with parseable values
NumericParseable(ps) ==
    \A i \in 1..Len(ps) :
        /\ NoSepNoEot(ps[i][1]) /\ NoSepNoEot(ps[i][2])
        /\ ps[i][1] \in NumericLabels => ParseI32(ps[i][2]).ok

\* ... and every pair is one parse_tag decodes
Decodable(ps) ==
    \A i \in 1..Len(ps) :
        /\ NoSepNoEot(ps[i][1]) /\ NoSepNoEot(ps[i][2])
        /\ parse_tag(ps[i][1], ps[i][2]).ok

ExpectedTags(ps) == [i \in 1..Len(ps) |-> parse_tag(ps[i][1], ps[i][2]).tag]

\* C1 as stated: a frame encoded from pairs with correct checksums and
\* delimiters, numeric labels carrying parseable values, decodes to Ok(Frame)
\* holding parse_tag of each pair in order.
C1_AsStated ==
    (Len(results) >= 1 /\ gen.kind = "plain" /\ gen.pre = <<>>
        /\ NumericParseable(gen.ps))
    => results[1] = FrameOk(ExpectedTags(gen.ps))

\* C1 (amended): when moreover parse_tag accepts every pair (an HHPHC value is
\* not empty), next_frame returns Ok(Frame) whose tags are parse_tag of each
\* pair, in order, none dropped or added.
C1_RoundTrip ==
    (Len(results) >= 1 /\ gen.kind = "plain" /\ Decodable(gen.ps))
    => results[1] = FrameOk(ExpectedTags(gen.ps))

C1_Witness ==
    /\ Len(results) >= 1 /\ gen.kind = "plain" /\ Decodable(gen.ps)
    /\ Len(gen.ps) >= 2
    /\ results[1].kind = "Ok" /\ Len(results[1].tags) = Len(gen.ps)

\* C2 as stated: one checksum byte replaced by any other byte value gives
\* ChecksumError.
C2_AsStated ==
    (Len(results) >= 1 /\ gen.kind = "sum" /\ Decodable(gen.ps))
    => results[1] = FrameErr(ChecksumError)

\* C2 (amended): one checksum byte replaced by a byte other than the computed
\* checksum and other than 0x04 gives ChecksumError and no Frame; replaced by
\* 0x04 it gives EndOfTransmission.
C2_ChecksumCorrupted ==
    (Len(results) >= 1 /\ gen.kind = "sum" /\ Decodable(gen.ps))
    => results[1] = IF gen.b = EOT THEN FrameErr(EndOfTransmission)
                    ELSE FrameErr(ChecksumError)

C2_Witness ==
    /\ Len(results) >= 1 /\ gen.kind = "sum" /\ Decodable(gen.ps)
    /\ gen.k = 2 /\ gen.b = CR
    /\ results[1].kind = "ChecksumError" /\ results[1].tags = <<>>

\* C4: wherever next_frame reads, the source being exhausted gives EndOfFile
\* and the byte 0x04 gives EndOfTransmission, and no Frame is returned.
C4_EofAndEot ==
    (Len(results) >= 1 /\ Decodable(gen.ps)) =>
        /\ (gen.kind = "cut" /\ gen.second = <<>>) =>
               /\ results[1] = FrameErr(EndOfFile)
               /\ pos = Len(input)
        /\ (gen.kind = "set" /\ gen.b = EOT) =>
               results[1] = FrameErr(EndOfTransmission)

\* the source ends where the checksum of the second group is to be read
C4_Witness ==
    /\ Len(results) >= 1 /\ Decodable(gen.ps)
    /\ gen.kind = "cut" /\ gen.second = <<>> /\ Len(gen.ps) >= 2
    /\ gen.k = Len(gen.pre) + ChecksumPos(gen.ps, 2) - 1
    /\ results[1].kind = "EndOfFile"

\* C5: after a first frame was returned, a second call on the same source,
\* whose next bytes encode a second frame, returns the tags of that second
\* frame only, as a call on the second frame's bytes alone does.
C5_SecondFrame ==
    (Len(results) >= 2 /\ gen.kind = "plain" /\ gen.second # <<>>
        /\ results[1].kind = "Ok")
    => /\ results[2] = FrameOk(ExpectedTags(gen.second[1]))
       /\ results[2] = next_frame(Post(gen), 0).res

C5_Witness ==
    /\ Len(results) >= 2 /\ gen.kind = "plain" /\ gen.junk = <<>>
    /\ gen.second = <<<<P_IINST5, P_BASE99>>>>
    /\ results[1].kind = "Ok" /\ Len(results[1].tags) >= 1
    /\ results[2].kind = "Ok" /\ Len(results[2].tags) = 2

(***************************************************************************)
(* The text of a base-10 signed integer that fits 32 bits, told from the   *)
(* digits: an optional sign, one digit or more, and, leading zeros apart,  *)
(* fewer than ten digits or ten digits not above 2147483647 (2147483648    *)
(* after a minus sign).                                                    *)
(***************************************************************************)
Unsigned(s) == IF s # <<>> /\ (s[1] = 43 \/ s[1] = 45) THEN Tail(s) ELSE s
Negative(s) == s # <<>> /\ s[1] = 45

RECURSIVE StripZeros(_)
StripZeros(d) == IF d # <<>> /\ Head(d) = 48 THEN StripZeros(Tail(d)) ELSE d

\* a <= b, for digit strings of the same length
RECURSIVE DigitsLeq(_, _)
DigitsLeq(a, b) ==
    IF a = <<>> THEN TRUE
    ELSE IF Head(a) # Head(b) THEN Head(a) < Head(b)
    ELSE DigitsLeq(Tail(a), Tail(b))

IsI32Text(s) ==
    LET d == Unsigned(s)
        m == StripZeros(d) IN
    /\ d # <<>>
    /\ \A i \in 1..Len(d) : d[i] \in 48..57
    /\ \/ Len(m) < 10
       \/ Len(m) = 10 /\ DigitsLeq(m, IF Negative(s) THEN V_over ELSE V_max)

\* the number a digit string of at most nine digits writes
RECURSIVE DecVal(_)
DecVal(d) == IF d = <<>> THEN 0 ELSE 10 * DecVal(SubSeq(d, 1, Len(d) - 1)) + (d[Len(d)] - 48)

\* C11: a group with a numeric label and a correct checksum whose value is
\* not the text of a base-10 signed integer fitting 32 bits makes next_frame
\* return FrameError and no Frame; when it is, the tag carries that integer.
C11_NumberOrError ==
    (Len(results) >= 1 /\ gen.kind = "num") =>
        LET pr == gen.ps[Len(gen.ps)]
            m == StripZeros(Unsigned(pr[2])) IN
        IF IsI32Text(pr[2])
        THEN /\ results[1].kind = "Ok"
             /\ Len(results[1].tags) = Len(gen.ps)
             /\ Len(m) <= 9 =>
                    results[1].tags[Len(gen.ps)].n
                        = IF Negative(pr[2]) THEN 0 - DecVal(m) ELSE DecVal(m)
             /\ pr[2] = V_max => results[1].tags[Len(gen.ps)].n = 2147483647
             /\ pr[2] = V_min => results[1].tags[Len(gen.ps)].n = -2147483647 - 1
        ELSE results[1] = FrameErr(FrameError("Number parse error on {}", pr[2]))

\* a value one above the largest i32, after a group that decodes
C11_Witness ==
    /\ Len(results) >= 1 /\ gen.kind = "num" /\ Len(gen.ps) = 2
    /\ gen.ps[2] = <<L_HCHC, V_over>>
    /\ results[1].kind = "FrameError" /\ results[1].tags = <<>>

\* C13: a call that returns a frame has read the source up to and including
\* the 0x03 that closes that frame and no further: what follows is unread,
\* and the next call discards it up to and including the next 0x02, so that
\* it returns the frame after it, or EndOfFile at the end of the source when
\* there is none.
C13_StopsAtEtx ==
    /\ (Len(results) >= 1 /\ results[Len(results)].kind = "Ok") =>
           pos >= 1 /\ input[pos] = ETX
    /\ (gen.kind = "plain" /\ Decodable(gen.ps)) =>
           /\ Len(results) = 1 =>
                  results[1].kind = "Ok" /\ pos = Len(Base(gen))
           /\ Len(results) = 2 =>
                  /\ pos = Len(input)
                  /\ results[2] = IF gen.second = <<>> THEN FrameErr(EndOfFile)
                                  ELSE FrameOk(ExpectedTags(gen.second[1]))

\* a frame, an ordinary byte, another frame: the first call stops before the
\* ordinary byte
C13_Witness ==
    /\ Len(results) = 1 /\ gen.kind = "plain" /\ Decodable(gen.ps)
    /\ gen.junk = Junk /\ gen.second = <<<<P_IINST5>>>> /\ Len(gen.ps) >= 1
    /\ results[1].kind = "Ok"
    /\ pos = Len(Base(gen)) /\ pos < Len(input) /\ input[pos + 1] = 120

\* the content stops after the <CR> of one of the groups
CutAfterGroup(g) ==
    g.kind = "cut" /\ \E i \in 1..Len(g.ps) : g.k = Len(g.pre) + CrPos(g.ps, i)

\* labels and values of printable characters, as a meter sends them
Printable(ps) ==
    \A i \in 1..Len(ps), j \in 1..2 :
        \A n \in 1..Len(ps[i][j]) : ps[i][j][n] \in 33..126

\* index in pre and the frame of the first byte of group i, the one after
\* the last group being that of the end marker
GroupStart(g, i) ==
    Len(g.pre) + (IF i = 1 THEN 2 ELSE CrPos(g.ps, i - 1) + 1)

\* the k-th read, replaced, is the first byte of a group, the end marker or
\* the <CR> of a group
AtStructure(g) ==
    /\ g.kind = "set"
    /\ \/ \E i \in 1..(Len(g.ps) + 1) : g.k = GroupStart(g, i)
       \/ \E i \in 1..Len(g.ps) : g.k = Len(g.pre) + CrPos(g.ps, i)

\* C14: when next_frame returns FrameError or ChecksumError on a malformed
\* frame and a well-formed frame follows it in the source, the next call
\* returns that following frame; the malformed frame being one with a wrong
\* byte where a group starts or ends, or one cut after one of its groups,
\* without its end marker, the start marker of the well-formed frame coming
\* next.
C14_NextFrameAfterError ==
    (/\ Len(results) >= 2 /\ gen.second # <<>> /\ gen.junk = <<>>
     /\ Decodable(gen.ps) /\ Printable(gen.ps)
     /\ AtStructure(gen) \/ CutAfterGroup(gen)
     /\ results[1].kind \in {"FrameError", "ChecksumError"})
    => results[2] = FrameOk(ExpectedTags(gen.second[1]))

\* C15: in a frame whose groups are otherwise valid, a byte other than 0x0A,
\* 0x03 and 0x04 read where a group starts gives FrameError "Expected LF but
\* found", and a byte other than 0x0D and 0x04 read after the checksum of a
\* group, a separator 0x20 as well, gives FrameError "Expected <CR> but
\* found"; no Frame is returned and the call stops at that byte.
C15_Positional ==
    (/\ Len(results) >= 1 /\ gen.kind = "set" /\ Decodable(gen.ps)
     /\ gen.b \notin {EOT, IOERR}) =>
        /\ (\E i \in 1..(Len(gen.ps) + 1) : gen.k = GroupStart(gen, i)) =>
               /\ results[1] = FrameErr(FrameError("Expected LF but found {}",
                                                   <<gen.b>>))
               /\ Len(results) = 1 => pos = gen.k
        /\ (\E i \in 1..Len(gen.ps) : gen.k = Len(gen.pre) + CrPos(gen.ps, i)) =>
               /\ results[1] = FrameErr(FrameError("Expected {} but found {}",
                                                   <<CR, gen.b>>))
               /\ Len(results) = 1 => pos = gen.k

\* a separator where the <CR> of the first of two groups should be
C15_Witness ==
    /\ Len(results) = 1 /\ gen.kind = "set" /\ Decodable(gen.ps)
    /\ Len(gen.ps) = 2 /\ gen.b = SP /\ gen.k = Len(gen.pre) + CrPos(gen.ps, 1)
    /\ results[1].kind = "FrameError" /\ results[1].tags = <<>>
    /\ results[1].arg = <<CR, SP>>

\* the k-th read is that of the checksum of a group
AtChecksum(g) ==
    \E i \in 1..Len(g.ps) : g.k = Len(g.pre) + ChecksumPos(g.ps, i)

\* a group of ps has the checksum 0x20
HasSepChecksum(ps) ==
    \E i \in 1..Len(ps) : MeterChecksum(ps[i][1], ps[i][2]) = SP

\* C16 as stated: the byte at the checksum position is never taken for a
\* control token: a checksum 0x20 is accepted and the group decoded like any
\* other, and any other byte read there is compared with the computed
\* checksum, giving ChecksumError.
C16_AsStated ==
    (Len(results) >= 1 /\ Decodable(gen.ps)) =>
        /\ (gen.kind = "plain" /\ HasSepChecksum(gen.ps)) =>
               results[1] = FrameOk(ExpectedTags(gen.ps))
        /\ (gen.kind = "set" /\ AtChecksum(gen) /\ gen.b # IOERR) =>
               results[1] = FrameErr(ChecksumError)

\* C16 (amended): a checksum 0x20 is accepted and the group decoded like any
\* other; a byte other than 0x04 read at the checksum position, 0x02, 0x03,
\* 0x0A, 0x0D and 0x20 included, is compared with the computed checksum and
\* gives ChecksumError when it differs; 0x04 read there gives
\* EndOfTransmission.
C16_ChecksumByPosition ==
    (Len(results) >= 1 /\ Decodable(gen.ps)) =>
        /\ (gen.kind = "plain" /\ HasSepChecksum(gen.ps)) =>
               results[1] = FrameOk(ExpectedTags(gen.ps))
        /\ (gen.kind = "set" /\ AtChecksum(gen) /\ gen.b # IOERR) =>
               /\ results[1] = IF gen.b = EOT THEN FrameErr(EndOfTransmission)
                               ELSE FrameErr(ChecksumError)
               /\ Len(results) = 1 => pos = gen.k
        /\ (gen.kind = "sum" /\ gen.b \in {STX, ETX, LF, CR, SP}) =>
               results[1] = FrameErr(ChecksumError)

\* a group whose checksum is 0x20, followed by another group
C16_Witness ==
    /\ Len(results) >= 1 /\ gen.kind = "plain" /\ Len(gen.ps) = 2
    /\ gen.ps[1] = P_ADCOI /\ Decodable(gen.ps)
    /\ input[Len(gen.pre) + ChecksumPos(gen.ps, 1)] = SP
    /\ results[1].kind = "Ok" /\ Len(results[1].tags) = 2
    /\ results[1].tags[1].tag = "ADCO"

\* group i is IMAX with the value "x", which is no number, and the groups
\* before it are ones parse_tag decodes
BadNumberAt(ps, i) ==
    /\ i \in 1..Len(ps) /\ ps[i] = P_IMAXx
    /\ Decodable(SubSeq(ps, 1, i - 1))

\* C17: the checksum is compared before the tag is decoded, and the tag is
\* decoded before the <CR> is read: a group with an unparseable number and a
\* wrong checksum gives ChecksumError; with a correct checksum and another
\* byte in place of its <CR> it gives the FrameError of the number, and the
\* byte at the place of the <CR> is not read.
C17_OrderOfChecks ==
    (Len(results) >= 1 /\ gen.kind = "set") =>
        \A i \in 1..Len(gen.ps) :
            BadNumberAt(gen.ps, i) =>
                /\ (gen.k = Len(gen.pre) + ChecksumPos(gen.ps, i)
                        /\ gen.b \notin {EOT, IOERR}) =>
                       results[1] = FrameErr(ChecksumError)
                /\ gen.k = Len(gen.pre) + CrPos(gen.ps, i) =>
                       /\ results[1] = FrameErr(FrameError(
                              "Number parse error on {}", <<120>>))
                       /\ Len(results) = 1 => pos = gen.k - 1

\* the second group is IMAX x with a separator in place of its <CR>
C17_Witness ==
    /\ Len(results) = 1 /\ gen.kind = "set" /\ Len(gen.ps) = 2
    /\ BadNumberAt(gen.ps, 2) /\ gen.b = SP
    /\ gen.k = Len(gen.pre) + CrPos(gen.ps, 2)
    /\ results[1].kind = "FrameError"
    /\ results[1].text = "Number parse error on {}"
    /\ pos = gen.k - 1 /\ input[pos + 1] = SP

(***************************************************************************)
(* SpecDrain: a caller that repeats Frame::next_frame on one source until  *)
(* it has got EndOfFile twice in a row.  No call is made that a source of  *)
(* Len(input) reads could not account for.                                 *)
(***************************************************************************)
LastKind == IF results = <<>> THEN "" ELSE results[Len(results)].kind

InitDrain ==
    /\ GenPlain(gen) \/ GenCut(gen) \/ GenSet(gen)
    /\ input = Build(gen)
    /\ pos = 0
    /\ results = <<>>
    /\ frame = <<>> /\ infos = <<>>
    /\ lbl = <<>> /\ val = <<>> /\ sum = -1 /\ parsed = <<>>

\* loop { let r = Frame::next_frame(&mut input); }
Drain ==
    /\ Len(results) <= Len(input) + 1
    /\ IF Len(results) < 2 THEN TRUE
       ELSE results[Len(results) - 1].kind # "EndOfFile"
    /\ LET r == next_frame(input, pos) IN
       /\ pos' = r.pos
       /\ results' = Append(results, r.res)
    /\ UNCHANGED <<input, gen, frame, infos, lbl, val, sum, parsed>>

NextDrain == Drain

SpecDrain == InitDrain /\ [][NextDrain]_vars

\* what one call does to the source
C18_Call ==
    Len(results') = Len(results) + 1 =>
        LET r == results'[Len(results')] IN
        /\ pos <= pos' /\ pos' <= Len(input)
        /\ r.kind # "EndOfFile" => pos < pos'
        /\ r.kind = "EndOfFile" => pos' = Len(input)
        /\ LastKind = "EndOfFile" => r.kind = "EndOfFile" /\ pos' = pos
        /\ r = next_frame(SubSeq(input, pos + 1, Len(input)), 0).res

\* what the calls made so far have returned
C18_Exhausts ==
    /\ pos <= Len(input)
    /\ Len(results) >= Len(input) + 1 =>
           \E i \in 1..Len(results) : results[i].kind = "EndOfFile"
    /\ \A i, j \in 1..Len(results) :
           (i < j /\ results[i].kind = "EndOfFile") => results[j].kind = "EndOfFile"

\* C18: every call returns, having read only bytes no earlier call has read
\* (it reads on from where the last call stopped, never beyond the end, and
\* its result is that of a call on the unread bytes alone); a call that does
\* not return EndOfFile has read one byte at least, so that EndOfFile is
\* returned by one of the first Len(input) + 1 calls; and a call after
\* EndOfFile returns EndOfFile again.
C18_Drains ==
    [][C18_Call]_vars /\ []C18_Exhausts

\* a frame, then EndOfFile twice
C18_Witness ==
    /\ Len(results) = 3 /\ Len(input) > 0 /\ pos = Len(input)
    /\ results[1].kind = "Ok"
    /\ results[2].kind = "EndOfFile" /\ results[3].kind = "EndOfFile"

(***************************************************************************)
(* hc.rs: HcInfosBuilder and HcInfos::from.  An Option is [some, v].       *)
(* Local::now() is the constant "now".  A panic is the result of kind      *)
(* "Panic": the call returns nothing and the thread unwinds.               *)
(***************************************************************************)
None == [some |-> FALSE, v |-> 0]
Some(x) == [some |-> TRUE, v |-> x]

HcInfosBuilder_new ==
    [date |-> None, periode |-> None, hc |-> None, hp |-> None,
     iinst |-> None, papp |-> None, alerte |-> FALSE]

B_date(b, d) == [b EXCEPT !.date = Some(d)]
B_periode(b, p) == [b EXCEPT !.periode = Some(p)]
B_hcKeepFirst(b, x) == IF b.hc.some THEN b ELSE [b EXCEPT !.hc = Some(x)]
B_hc(b, x) == [b EXCEPT !.hc = Some(x)]
B_hp(b, x) == [b EXCEPT !.hp = Some(x)]
B_iinst(b, x) == [b EXCEPT !.iinst = Some(x)]
B_papp(b, x) == [b EXCEPT !.papp = Some(x)]
B_alerte(b, a) == [b EXCEPT !.alerte = a]

NoInfos ==
    [date |-> "", periode |-> "", hc |-> 0, hp |-> 0, iinst |-> 0, papp |-> 0,
     alerte |-> FALSE]
HcOk(i) == [kind |-> "Ok", infos |-> i, text |-> "", arg |-> <<>>]
HcErr(e) == [kind |-> e.kind, infos |-> NoInfos, text |-> e.text, arg |-> e.arg]
HcPanic(text) == [kind |-> "Panic", infos |-> NoInfos, text |-> text, arg |-> <<>>]

\* the struct expression of build: each get! returns at the first None
build(b) ==
    IF ~b.date.some THEN HcErr(FrameError("Missing date", <<>>))
    ELSE IF ~b.periode.some THEN HcErr(FrameError("Missing periode", <<>>))
    ELSE IF ~b.hc.some THEN HcErr(FrameError("Missing hc", <<>>))
    ELSE IF ~b.hp.some THEN HcErr(FrameError("Missing hp", <<>>))
    ELSE IF ~b.iinst.some THEN HcErr(FrameError("Missing iinst", <<>>))
    ELSE IF ~b.papp.some THEN HcErr(FrameError("Missing papp", <<>>))
    ELSE HcOk([date |-> b.date.v, periode |-> b.periode.v, hc |-> b.hc.v,
               hp |-> b.hp.v, iinst |-> b.iinst.v, papp |-> b.papp.v,
               alerte |-> b.alerte])

\* Tag::ADPS(_) => { builder.alerte(true); }
OnAdpsPayload(b, t) == B_alerte(b, t.n # 0)
OnAdps(b, t) == B_alerte(b, TRUE)

\* the body of the for loop of from: [panic, b]
OnTag(b, t) ==
    IF t.tag = "PTEC"
    THEN IF t.e = "HP" THEN [panic |-> FALSE, b |-> B_periode(b, "HP")]
         ELSE IF t.e = "HC" THEN [panic |-> FALSE, b |-> B_periode(b, "HC")]
         ELSE [panic |-> TRUE, b |-> b]
    ELSE IF t.tag = "HCHC" THEN [panic |-> FALSE, b |-> B_hc(b, t.n)]
    ELSE IF t.tag = "HCHP" THEN [panic |-> FALSE, b |-> B_hp(b, t.n)]
    ELSE IF t.tag = "IINST" THEN [panic |-> FALSE, b |-> B_iinst(b, t.n)]
    ELSE IF t.tag = "PAPP" THEN [panic |-> FALSE, b |-> B_papp(b, t.n)]
    ELSE IF t.tag = "ADPS" THEN [panic |-> FALSE, b |-> OnAdps(b, t)]
    ELSE [panic |-> FALSE, b |-> b]

\* for tag in frame.tags { ... }
RECURSIVE ForTags(_, _)
ForTags(tags, b) ==
    IF tags = <<>> THEN [panic |-> FALSE, b |-> b]
    ELSE LET r == OnTag(b, Head(tags)) IN
         IF r.panic THEN r ELSE ForTags(Tail(tags), r.b)

HcInfos_from(f) ==
    LET r == ForTags(f, B_date(HcInfosBuilder_new, "now")) IN
    IF r.panic THEN HcPanic("PeriodeTarifaire does not match HC")
    ELSE build(r.b)

(***************************************************************************)
(* SpecHc: HcInfos::from applied to a generated Frame: some of the five    *)
(* mandatory tags, in the order the meter sends them, with up to MaxExtra  *)
(* other tags put in before, amid or after them.                           *)
(***************************************************************************)
T_PTEC_HP == EnumTag("PTEC", "HP", <<>>)
T_PTEC_HC == EnumTag("PTEC", "HC", <<>>)
T_PTEC_TH == EnumTag("PTEC", "TH", <<>>)
T_PTEC_UNKNOWN == EnumTag("PTEC", "UNKNOWN", <<120>>)

Mandatory ==
    <<T_PTEC_HP, NumTag("HCHC", 1), NumTag("HCHP", 2), NumTag("IINST", 3),
      NumTag("PAPP", 4)>>

\* the mandatory tags left out
Dropped ==
    {{}, {1}, {2}, {3}, {4}, {5}, {1, 5}, {2, 3}, {3, 4, 5}, {1, 2, 3, 4, 5}}

RECURSIVE Without(_, _, _)
Without(tags, i, drop) ==
    IF tags = <<>> THEN <<>>
    ELSE IF i \in drop THEN Without(Tail(tags), i + 1, drop)
    ELSE <<Head(tags)>> \o Without(Tail(tags), i + 1, drop)

IgnoredTags ==
    {StrTag("ADCO", <<73>>), EnumTag("OPTARIF", "HC", <<>>), NumTag("ISOUSC", 30),
     NumTag("BASE", 99), NumTag("IMAX", 9), StrTag("HHPHC", <<65>>),
     StrTag("MOTDETAT", <<48>>), MkTag("UNKNOWN", 0, "", V_123, L_XYZ)}

ExtraTags ==
    {T_PTEC_HC, T_PTEC_TH, T_PTEC_UNKNOWN, NumTag("HCHC", 7), NumTag("HCHP", 8),
     NumTag("IINST", 9), NumTag("PAPP", -6), NumTag("ADPS", 0), NumTag("ADPS", 5)}
    \cup IgnoredTags

Insert(f, p, t) == SubSeq(f, 1, p) \o <<t>> \o SubSeq(f, p + 1, Len(f))

\* where a tag is put in: before all (0), in the middle (1), after all (2)
Place(f, w) == IF w = 0 THEN 0 ELSE IF w = 1 THEN Len(f) \div 2 ELSE Len(f)

\* f with the tags of ops put in one after the other, each a <<where, tag>>
RECURSIVE WithExtras(_, _)
WithExtras(f, ops) ==
    IF ops = <<>> THEN f
    ELSE WithExtras(Insert(f, Place(f, Head(ops)[1]), Head(ops)[2]), Tail(ops))

InitHc ==
    /\ \E d \in Dropped, m \in 0..MaxExtra :
          \E ops \in [1..m -> {0, 1, 2} \X ExtraTags] :
              frame = WithExtras(Without(Mandatory, 1, d), ops)
    /\ infos = <<>>
    /\ input = <<>> /\ pos = 0 /\ results = <<>> /\ gen = NoGen
    /\ lbl = <<>> /\ val = <<>> /\ sum = -1 /\ parsed = <<>>

\* let r = HcInfos::from(frame);
From ==
    /\ infos = <<>>
    /\ infos' = <<HcInfos_from(frame)>>
    /\ UNCHANGED <<input, pos, results, gen, frame, lbl, val, sum, parsed>>

NextHc == From

SpecHc == InitHc /\ [][NextHc]_vars

Has(f, t) == \E i \in 1..Len(f) : f[i].tag = t
LastIndex(f, t) == CHOOSE i \in 1..Len(f) :
    f[i].tag = t /\ \A j \in (i + 1)..Len(f) : f[j].tag # t
Last(f, t) == f[LastIndex(f, t)]

MissingText ==
    IF ~Has(frame, "PTEC") THEN "Missing periode"
    ELSE IF ~Has(frame, "HCHC") THEN "Missing hc"
    ELSE IF ~Has(frame, "HCHP") THEN "Missing hp"
    ELSE IF ~Has(frame, "IINST") THEN "Missing iinst"
    ELSE IF ~Has(frame, "PAPP") THEN "Missing papp"
    ELSE ""

\* C6: HcInfos::from returns either a record whose periode, hc, hp, iinst and
\* papp are all set from tags of the frame, or an error naming the first
\* missing field in the order periode, hc, hp, iinst, papp ("Missing papp"
\* when only PAPP is absent); nothing else.
C6_AllOrMissing ==
    infos # <<>> =>
        LET r == infos[1] IN
        IF MissingText = ""
        THEN /\ r.kind = "Ok"
             /\ r.infos.hc = Last(frame, "HCHC").n
             /\ r.infos.hp = Last(frame, "HCHP").n
             /\ r.infos.iinst = Last(frame, "IINST").n
             /\ r.infos.papp = Last(frame, "PAPP").n
             /\ r.infos.periode = Last(frame, "PTEC").e
        ELSE r.kind = "FrameError" /\ r.text = MissingText

\* C7: a PTEC tag whose value is not HP or HC (TH or UNKNOWN) makes the
\* extraction fail with an error value returned to the caller, never a panic.
C7_ErrorNotPanic ==
    (infos # <<>> /\ \E i \in 1..Len(frame) :
                        frame[i].tag = "PTEC" /\ frame[i].e \notin {"HP", "HC"})
    => infos[1].kind = "FrameError"

\* C8: when the extraction succeeds, alerte is true exactly when the frame
\* holds an ADPS tag, whatever its payload and its place.
C8_Alerte ==
    (infos # <<>> /\ infos[1].kind = "Ok")
    => (infos[1].infos.alerte <=> Has(frame, "ADPS"))

\* ADPS with payload 0, followed by other tags, sets the flag
C8_Witness ==
    /\ infos # <<>> /\ infos[1].kind = "Ok" /\ infos[1].infos.alerte
    /\ \E i \in 1..(Len(frame) - 1) : frame[i] = NumTag("ADPS", 0)
    /\ ~\E i \in 1..Len(frame) : frame[i] = NumTag("ADPS", 5)

IgnoredKinds ==
    {"ADCO", "OPTARIF", "ISOUSC", "BASE", "IMAX", "HHPHC", "MOTDETAT", "UNKNOWN"}

RECURSIVE RemoveIgnored(_)
RemoveIgnored(f) ==
    IF f = <<>> THEN <<>>
    ELSE IF Head(f).tag \in IgnoredKinds THEN RemoveIgnored(Tail(f))
    ELSE <<Head(f)>> \o RemoveIgnored(Tail(f))

\* C9: when the extraction succeeds, hc, hp, iinst, papp and periode are the
\* payload of the last HCHC, HCHP, IINST, PAPP and PTEC tag of the frame, and
\* the tags of the other kinds change nothing: the frame without them gives
\* the same record.
C9_LastWins ==
    (infos # <<>> /\ infos[1].kind = "Ok") =>
        LET r == infos[1].infos IN
        /\ r.hc = Last(frame, "HCHC").n
        /\ r.hp = Last(frame, "HCHP").n
        /\ r.iinst = Last(frame, "IINST").n
        /\ r.papp = Last(frame, "PAPP").n
        /\ r.periode = Last(frame, "PTEC").e
        /\ infos[1] = HcInfos_from(RemoveIgnored(frame))

\* two HCHC tags with different payloads and a tag of an ignored kind
C9_Witness ==
    /\ infos # <<>> /\ infos[1].kind = "Ok"
    /\ \E i, j \in 1..Len(frame) :
           i < j /\ frame[i].tag = "HCHC" /\ frame[j].tag = "HCHC"
           /\ frame[i].n # frame[j].n /\ infos[1].infos.hc = frame[j].n
    /\ \E i \in 1..Len(frame) : frame[i].tag \in IgnoredKinds

(***************************************************************************)
(* hc.rs: HcInfos::read, the next frame of a source turned into a record.  *)
(***************************************************************************)
HcInfos_readAlways(in, p) ==
    LET r == next_frame(in, p) IN
    Ret(HcInfos_from(r.res.tags), r.pos)

\* let frame = Frame::next_frame(&mut input)?; return HcInfos::from(frame);
HcInfos_read(in, p) ==
    LET r == next_frame(in, p) IN
    IF r.res.kind # "Ok" THEN Ret(HcErr(r.res), r.pos)
    ELSE Ret(HcInfos_from(r.res.tags), r.pos)

(***************************************************************************)
(* SpecRead: HcInfos::read called again and again on one source, whose     *)
(* content is that of Spec or that of a frame of an off-peak contract,     *)
(* left as it is or damaged in the same ways.                              *)
(***************************************************************************)
P_PTECTH == <<L_PTEC, S_THdd>>
P_HCHC1 == <<L_HCHC, <<49>>>>
P_HCHP2 == <<L_HCHP, <<50>>>>
P_PAPP4 == <<L_PAPP, <<52>>>>
P_ADPS7 == <<L_ADPS, <<55>>>>

HcSeqs ==
    {<<P_PTEC, P_HCHC1, P_HCHP2, P_IINST5, P_PAPP4>>,
     <<P_PTEC, P_HCHC1, P_HCHP2, P_IINST5>>,
     <<P_PTECTH, P_HCHC1, P_HCHP2, P_IINST5, P_PAPP4>>,
     <<P_ADPS7, P_PTEC, P_HCHC1, P_HCHP2, P_IINST5, P_PAPP4>>}

GenHcPlain(g) ==
    \E ps \in HcSeqs, q \in {<<>>, <<<<P_IINST5>>>>} :
        g = MkGen("plain", <<>>, ps, 0, 0, <<>>, q)

GenHcCut(g) ==
    \E ps \in HcSeqs :
        \E k \in 0..(Len(Encode(ps)) - 1) :
            g = MkGen("cut", <<>>, ps, k, 0, <<>>, <<>>)

GenHcSet(g) ==
    \E ps \in HcSeqs :
        \E k \in 1..Len(Encode(ps)), b \in SetBytes :
            /\ Encode(ps)[k] # b
            /\ g = MkGen("set", <<>>, ps, k, b, <<>>, <<>>)

GenHcSum(g) ==
    \E ps \in HcSeqs :
        \E k \in 1..Len(ps), b \in {0, SP, CR, 255} :
            /\ b # MeterChecksum(ps[k][1], ps[k][2])
            /\ g = MkGen("sum", <<>>, ps, k, b, <<>>, <<>>)

InitRead ==
    /\ \/ GenPlain(gen) \/ GenCut(gen) \/ GenSet(gen) \/ GenSum(gen) \/ GenNum(gen)
       \/ GenHcPlain(gen) \/ GenHcCut(gen) \/ GenHcSet(gen) \/ GenHcSum(gen)
    /\ input = Build(gen)
    /\ pos = 0
    /\ infos = <<>>
    /\ results = <<>> /\ frame = <<>>
    /\ lbl = <<>> /\ val = <<>> /\ sum = -1 /\ parsed = <<>>

\* let r = HcInfos::read(&mut input);
HcRead ==
    /\ Len(infos) < MaxCalls
    /\ LET r == HcInfos_read(input, pos) IN
       /\ pos' = r.pos
       /\ infos' = Append(infos, r.res)
    /\ UNCHANGED <<input, gen, frame, results, lbl, val, sum, parsed>>

NextRead == HcRead

SpecRead == InitRead /\ [][NextRead]_vars

\* C12: HcInfos::read returns the error of the next_frame call as it is, of
\* the same kind (EndOfFile where the source ends, EndOfTransmission on 0x04,
\* IoError on a failed read, ChecksumError on a wrong checksum, FrameError
\* with its text on an undecodable value), and returns what HcInfos::from
\* makes of the frame only when next_frame returned one.
C12_ErrorsUnchanged ==
    Len(infos) >= 1 =>
        /\ LET r == next_frame(input, 0).res IN
           IF r.kind = "Ok" THEN infos[1] = HcInfos_from(r.tags)
           ELSE infos[1] = [kind |-> r.kind, infos |-> NoInfos,
                            text |-> r.text, arg |-> r.arg]
        /\ Decodable(gen.ps) =>
              /\ (gen.kind = "cut" /\ gen.second = <<>>) =>
                     infos[1] = HcErr(EndOfFile)
              /\ (gen.kind = "set" /\ gen.b = EOT) =>
                     infos[1] = HcErr(EndOfTransmission)
              /\ (gen.kind = "set" /\ gen.b = IOERR) =>
                     infos[1] = HcErr(IoError)
              /\ (gen.kind = "sum" /\ gen.b # EOT) =>
                     infos[1] = HcErr(ChecksumError)
              /\ gen.kind = "plain" =>
                     infos[1] = HcInfos_from(ExpectedTags(gen.ps))
        /\ (gen.kind = "num" /\ ~IsI32Text(gen.ps[Len(gen.ps)][2])) =>
              infos[1] = HcErr(FrameError("Number parse error on {}",
                                          gen.ps[Len(gen.ps)][2]))

\* a whole frame gives a record, then the exhausted source gives EndOfFile
C12_Witness ==
    /\ Len(infos) >= 2 /\ gen.kind = "plain" /\ gen.second = <<>>
    /\ gen.ps = <<P_PTEC, P_HCHC1, P_HCHP2, P_IINST5, P_PAPP4>>
    /\ infos[1].kind = "Ok" /\ infos[1].infos.papp = 4
    /\ infos[2] = HcErr(EndOfFile)

====
